---- MODULE Spec2Model ----
(***************************************************************************)
(* Model of pytorch_widedeep/models/wide_deep.py: the WideDeep collector   *)
(* class.  Construction (argument validation and the choice of setup) and  *)
(* the forward pass are translated statement by statement.  Tensors are    *)
(* represented by their shape and by the symbolic sum of terms they hold:  *)
(* a term names the branch outputs it is computed from and the layers      *)
(* applied to them, so two tensors are equal exactly when the same layers  *)
(* were applied to the same branch outputs.                                *)
(***************************************************************************)
EXTENDS Integers, Sequences, FiniteSets, TLC

VARIABLES pc, args, self, exc, warned, training, X, fwd_training, res

vars == <<pc, args, self, exc, warned, training, X, fwd_training, res>>

(* ---------------------------- bounds ----------------------------------- *)

\* largest output_dim of a deep component
MaxDim == 2

\* largest pred_dim (and largest width of the wide component)
MaxPredDim == 2

\* largest number of rows of a batch
MaxBatch == 2

(* ----------------------- construction arguments ------------------------ *)

\* wide=None
NoWide == [present |-> FALSE, pred_dim |-> 0]

\* deeptabular=None, deeptext=None, deepimage=None
NoDeep == [present |-> FALSE, cls |-> "None", has_output_dim |-> FALSE,
           output_dim |-> 0, proj |-> "none"]

\* deephead=None
NoHead == [present |-> FALSE, kind |-> "none", inp_feat |-> 0, dims |-> <<>>,
           head_out |-> <<>>]

\* head_hidden_dims=None
NoDims == [given |-> FALSE, dims |-> <<>>]

\* a deep component of class cls; without the attribute output_dim when d = 0
DeepOf(cls, d) ==
    [present |-> TRUE, cls |-> cls, has_output_dim |-> d > 0,
     output_dim |-> d, proj |-> "none"]

WideChoices ==
    {NoWide} \cup {[present |-> TRUE, pred_dim |-> w] : w \in 1..MaxPredDim}

TabChoices ==
    {NoDeep} \cup {DeepOf(c, d) : c \in {"TabMlp", "TabNet"}, d \in 0..MaxDim}

TextChoices == {NoDeep} \cup {DeepOf("DeepText", d) : d \in 0..MaxDim}

ImageChoices == {NoDeep} \cup {DeepOf("DeepImage", d) : d \in 0..MaxDim}

\* a custom head; inp_feat is next(deephead.parameters()).size(1)
HeadChoices ==
    {NoHead} \cup
    {[present |-> TRUE, kind |-> "custom", inp_feat |-> n, dims |-> <<>>,
      head_out |-> <<>>] : n \in 0..(2 * MaxDim)}

DimsChoices == {NoDims, [given |-> TRUE, dims |-> <<MaxDim + 2, MaxDim>>]}

\* the arguments of WideDeep.__init__ (the head_* options of the MLP builder
\* do not influence any branch of this file and are left at their defaults)
Args ==
    {a \in [wide : WideChoices, deeptabular : TabChoices,
            deeptext : TextChoices, deepimage : ImageChoices,
            deephead : HeadChoices, head_hidden_dims : DimsChoices,
            enforce_positive : BOOLEAN,
            enforce_positive_activation : {"softplus", "relu"},
            pred_dim : 1..MaxPredDim, fds : BOOLEAN, fds_config : BOOLEAN] :
        /\ (~a.enforce_positive => a.enforce_positive_activation = "softplus")
        /\ (~a.fds => ~a.fds_config)}

NoArgs ==
    [wide |-> NoWide, deeptabular |-> NoDeep, deeptext |-> NoDeep,
     deepimage |-> NoDeep, deephead |-> NoHead, head_hidden_dims |-> NoDims,
     enforce_positive |-> FALSE, enforce_positive_activation |-> "softplus",
     pred_dim |-> 1, fds |-> FALSE, fds_config |-> FALSE]

(* ------------------------------ validation ----------------------------- *)

\* deeptabular.__class__.__name__ == "TabNet"
IsTabNetClass(deeptabular) == deeptabular.cls = "TabNet"

\* wide is not None or deeptext is not None or deepimage is not None
has_wide_text_or_image(a) ==
    a.wide.present \/ a.deeptext.present \/ a.deepimage.present

\* SumOutputDim with the image branch forgotten
SumOutputDim_NoImage(deeptabular, deeptext, deepimage) ==
    (IF deeptabular.present THEN deeptabular.output_dim ELSE 0)
    + (IF deeptext.present THEN deeptext.output_dim ELSE 0)

\* output_dim summed over the deep components that are present
SumOutputDim(deeptabular, deeptext, deepimage) ==
    (IF deeptabular.present THEN deeptabular.output_dim ELSE 0)
    + (IF deeptext.present THEN deeptext.output_dim ELSE 0)
    + (IF deepimage.present THEN deepimage.output_dim ELSE 0)

\* does validation get as far as the TabNet advisory
ReachesTabNetCheck(a) ==
    /\ (a.wide.present => a.wide.pred_dim = a.pred_dim)
    /\ (a.deeptabular.present => a.deeptabular.has_output_dim)

\* CheckWarnings that does not look at the other components
CheckWarnings_AnyTabNet(a) ==
    IF /\ ReachesTabNetCheck(a)
       /\ a.deeptabular.present
       /\ IsTabNetClass(a.deeptabular)
    THEN 1 ELSE 0

\* number of warnings _check_model_components emits
CheckWarnings(a) ==
    IF /\ ReachesTabNetCheck(a)
       /\ a.deeptabular.present
       /\ IsTabNetClass(a.deeptabular)
       /\ has_wide_text_or_image(a)
    THEN 1 ELSE 0

\* CheckException without the check that deephead and head_hidden_dims
\* exclude each other
CheckException_NoExclusive(a) ==
    IF a.wide.present /\ a.wide.pred_dim # a.pred_dim THEN "AssertionError"
    ELSE IF a.deeptabular.present /\ ~a.deeptabular.has_output_dim
    THEN "AttributeError"
    ELSE IF a.deeptext.present /\ ~a.deeptext.has_output_dim
    THEN "AttributeError"
    ELSE IF a.deepimage.present /\ ~a.deepimage.has_output_dim
    THEN "AttributeError"
    ELSE IF /\ a.head_hidden_dims.given
            /\ ~a.deeptabular.present
            /\ ~a.deeptext.present
            /\ ~a.deepimage.present
    THEN "ValueError"
    ELSE IF /\ a.deephead.present
            /\ a.deephead.inp_feat
                 # SumOutputDim(a.deeptabular, a.deeptext, a.deepimage)
    THEN "AssertionError"
    ELSE "none"

\* the exception _check_model_components raises, "none" when it returns
CheckException(a) ==
    IF a.wide.present /\ a.wide.pred_dim # a.pred_dim THEN "AssertionError"
    ELSE IF a.deeptabular.present /\ ~a.deeptabular.has_output_dim
    THEN "AttributeError"
    ELSE IF a.deeptext.present /\ ~a.deeptext.has_output_dim
    THEN "AttributeError"
    ELSE IF a.deepimage.present /\ ~a.deepimage.has_output_dim
    THEN "AttributeError"
    ELSE IF a.deephead.present /\ a.head_hidden_dims.given THEN "ValueError"
    ELSE IF /\ a.head_hidden_dims.given
            /\ ~a.deeptabular.present
            /\ ~a.deeptext.present
            /\ ~a.deepimage.present
    THEN "ValueError"
    ELSE IF /\ a.deephead.present
            /\ a.deephead.inp_feat
                 # SumOutputDim(a.deeptabular, a.deeptext, a.deepimage)
    THEN "AssertionError"
    ELSE "none"

_check_model_components(a) ==
    [exc |-> CheckException(a), warned |-> CheckWarnings(a)]

(* ------------------------------ construction --------------------------- *)

\* no FDS layer / no pred_layer attribute
NoLayer == [present |-> FALSE, inp |-> 0, out |-> 0, from_config |-> FALSE]

\* the object before __init__ has assigned anything
NoSelf ==
    [wide |-> NoWide, deeptabular |-> NoDeep, deeptext |-> NoDeep,
     deepimage |-> NoDeep, deephead |-> NoHead, pred_dim |-> 0,
     enforce_positive |-> FALSE, fds |-> FALSE, is_tabnet |-> FALSE,
     FDS |-> NoLayer, FDS_dropout |-> FALSE, pred_layer |-> NoLayer,
     enf_pos |-> "none"]

\* the attribute assignments of __init__ that precede the choice of setup
AssignAttributes(a) ==
    [NoSelf EXCEPT
        !.pred_dim = a.pred_dim,
        !.wide = a.wide,
        !.deeptabular = a.deeptabular,
        !.deeptext = a.deeptext,
        !.deepimage = a.deepimage,
        !.deephead = a.deephead,
        !.enforce_positive = a.enforce_positive,
        !.fds = a.fds,
        !.is_tabnet = IF a.deeptabular.present
                      THEN IsTabNetClass(a.deeptabular) ELSE FALSE]

_build_deephead(s, head_hidden_dims) ==
    LET deep_dim == SumOutputDim(s.deeptabular, s.deeptext, s.deepimage)
        dims == <<deep_dim>> \o head_hidden_dims
    IN  [s EXCEPT !.deephead =
            [present |-> TRUE, kind |-> "built", inp_feat |-> dims[1],
             dims |-> dims, head_out |-> <<dims[Len(dims)], s.pred_dim>>]]

_add_pred_layer(s) ==
    [s EXCEPT
        !.deeptabular.proj =
            IF s.deeptabular.present
            THEN (IF s.is_tabnet THEN "TabNetPredLayer" ELSE "Linear")
            ELSE @,
        !.deeptext.proj = IF s.deeptext.present THEN "Linear" ELSE @,
        !.deepimage.proj = IF s.deepimage.present THEN "Linear" ELSE @]

\* the FDS branch of __init__: the layers it creates (the size of an FDS
\* layer built from fds_config is the configuration's, written 0 here)
BuildFDS(s, a) ==
    [s EXCEPT
        !.FDS = [present |-> TRUE,
                 inp |-> IF a.fds_config THEN 0
                         ELSE s.deeptabular.output_dim,
                 out |-> IF a.fds_config THEN 0
                         ELSE s.deeptabular.output_dim,
                 from_config |-> a.fds_config],
        !.FDS_dropout = TRUE,
        !.pred_layer = [present |-> TRUE, inp |-> s.deeptabular.output_dim,
                        out |-> s.pred_dim, from_config |-> FALSE]]

\* may the FDS branch of __init__ proceed (it raises ValueError otherwise)
FDSAllowed(s) == s.deeptabular.present /\ s.pred_dim = 1

\* SetupOf with the fds branch tested before the head branches
SetupOf_FdsFirst(s, a) ==
    IF s.fds THEN "fds"
    ELSE IF ~s.deephead.present /\ a.head_hidden_dims.given THEN "built"
    ELSE IF s.deephead.present THEN "custom"
    ELSE "wrapped"

\* the setup __init__ chooses: "built", "custom", "fds" or "wrapped"
SetupOf(s, a) ==
    IF ~s.deephead.present /\ a.head_hidden_dims.given THEN "built"
    ELSE IF s.deephead.present THEN "custom"
    ELSE IF s.fds THEN "fds"
    ELSE "wrapped"

\* the if/elif chain of __init__ that wires the chosen setup
ApplySetup(s, a) ==
    LET setup == SetupOf(s, a)
    IN  IF setup = "built"
        THEN [exc |-> "none", self |-> _build_deephead(s, a.head_hidden_dims.dims)]
        ELSE IF setup = "custom" THEN [exc |-> "none", self |-> s]
        ELSE IF setup = "fds"
        THEN (IF ~FDSAllowed(s)
              THEN [exc |-> "ValueError", self |-> NoSelf]
              ELSE [exc |-> "none", self |-> BuildFDS(s, a)])
        ELSE [exc |-> "none", self |-> _add_pred_layer(s)]

\* self.enf_pos = get_activation_fn(enforce_positive_activation)
BindEnfPos(s, a) ==
    IF s.enforce_positive
    THEN [s EXCEPT !.enf_pos = a.enforce_positive_activation]
    ELSE s

\* WideDeep.__init__: the outcome of construction with arguments a
__init__(a) ==
    LET chk == _check_model_components(a)
    IN  IF chk.exc # "none"
        THEN [exc |-> chk.exc, warned |-> chk.warned, self |-> NoSelf]
        ELSE LET r == ApplySetup(AssignAttributes(a), a)
             IN  IF r.exc # "none"
                 THEN [exc |-> r.exc, warned |-> chk.warned, self |-> NoSelf]
                 ELSE [exc |-> "none", warned |-> chk.warned,
                       self |-> BindEnfPos(r.self, a)]

(* ------------------------------- tensors ------------------------------- *)

\* one summand of a tensor: the layers ops applied, in order, to the
\* concatenated outputs of the branches srcs
Term(srcs, ops) == [srcs |-> srcs, ops |-> ops]

\* a [rows, width] tensor holding the sum of terms; act names the
\* activation applied to it last ("none": no activation)
Tensor(rows, width, terms) ==
    [rows |-> rows, width |-> width, terms |-> terms, act |-> "none"]

\* torch.FloatTensor(): the empty tensor, which has one dimension only
EmptyTensor == Tensor(0, 0, <<>>)

\* torch.zeros(rows, width): the sum of no term
Zeros(rows, width) == Tensor(rows, width, <<>>)

\* no auxiliary value / TabNet's sparsity loss / the raw tabular features
NoAux == [kind |-> "none", t |-> EmptyTensor]

M_lossAux == [kind |-> "M_loss", t |-> EmptyTensor]

FeaturesAux(t) == [kind |-> "features", t |-> t]

\* can b be added in place to a: broadcasting b must give a's own shape
AddFits(a, b) == b.rows \in {a.rows, 1} /\ b.width \in {a.width, 1}

\* a.add_(b), for b that fits
add_(a, b) == [a EXCEPT !.terms = a.terms \o b.terms]

\* the batch passed to forward: its keys, its row count, and whether the
\* wide component maps X["wide"] to zeros
Batch(keys, rows, wide_zero) ==
    [keys |-> keys, rows |-> rows, wide_zero |-> wide_zero]

NoBatch == Batch({}, 0, FALSE)

\* the keys of a batch that matches the branches of s
KeysOf(s) ==
    {k \in {"wide", "deeptabular", "deeptext", "deepimage"} :
        \/ k = "wide" /\ s.wide.present
        \/ k = "deeptabular" /\ s.deeptabular.present
        \/ k = "deeptext" /\ s.deeptext.present
        \/ k = "deepimage" /\ s.deepimage.present}

\* comp(X[name]) for a deep component: its activations, or its projection
\* to pred_dim when _add_pred_layer wrapped it (for TabNet, the first item
\* of the pair it returns)
CallDeep(s, comp, name, b) ==
    IF comp.proj = "none"
    THEN Tensor(b.rows, comp.output_dim, <<Term(<<name>>, <<>>)>>)
    ELSE Tensor(b.rows, s.pred_dim, <<Term(<<name>>, <<comp.proj>>)>>)

(* ----------------------------- forward pass ---------------------------- *)

\* what a helper of forward hands back: the exception it raised ("none" if
\* it returned), whether it returned a tuple, the tensor and the second item
Raise(e) == [exc |-> e, tuple |-> FALSE, out |-> EmptyTensor, aux |-> NoAux]

Return(out) == [exc |-> "none", tuple |-> FALSE, out |-> out, aux |-> NoAux]

ReturnPair(out, aux) ==
    [exc |-> "none", tuple |-> TRUE, out |-> out, aux |-> aux]

\* WideZeros filled with ones
WideZeros_Ones(s, b) ==
    Tensor(b.rows, s.pred_dim, <<Term(<<"ones">>, <<>>)>>)

\* torch.zeros(batch_size, self.pred_dim)
WideZeros(s, b) == Zeros(b.rows, s.pred_dim)

_forward_wide(s, b) ==
    IF s.wide.present
    THEN Return(Tensor(b.rows, s.wide.pred_dim,
                       IF b.wide_zero THEN <<>>
                       ELSE <<Term(<<"wide">>, <<>>)>>))
    ELSE IF b.keys = {} THEN Raise("IndexError")
    ELSE Return(WideZeros(s, b))

\* torch.cat([deepside, t], axis=1); the empty tensor contributes nothing
Cat(deepside, t) ==
    [rows |-> t.rows, width |-> deepside.width + t.width,
     srcs |-> deepside.srcs \o t.terms[1].srcs]

\* the concatenation of the present deep branches' outputs
Deepside(s, b) ==
    LET d0 == IF s.deeptabular.present
              THEN LET t == CallDeep(s, s.deeptabular, "deeptabular", b)
                   IN  [rows |-> t.rows, width |-> t.width,
                        srcs |-> t.terms[1].srcs]
              ELSE [rows |-> 0, width |-> 0, srcs |-> <<>>]
        d1 == IF s.deeptext.present
              THEN Cat(d0, CallDeep(s, s.deeptext, "deeptext", b))
              ELSE d0
    IN  IF s.deepimage.present
        THEN Cat(d1, CallDeep(s, s.deepimage, "deepimage", b))
        ELSE d1

_forward_deephead(s, b, wide_out) ==
    LET deepside == Deepside(s, b)
    IN  IF deepside.width # s.deephead.inp_feat THEN Raise("RuntimeError")
        \* deephead_out.size(1) of a head output with a single dimension
        ELSE IF deepside.rows = 0 THEN Raise("IndexError")
        ELSE LET out == Tensor(deepside.rows, s.pred_dim,
                          <<Term(deepside.srcs,
                                 <<"deephead", "deepside_out">>)>>)
             IN  IF ~AddFits(wide_out, out) THEN Raise("RuntimeError")
                 ELSE IF s.is_tabnet
                 THEN ReturnPair(add_(wide_out, out), M_lossAux)
                 ELSE Return(add_(wide_out, out))

\* SmoothOps that smooths in inference mode as well
SmoothOps_Always(s, train) ==
    IF s.fds THEN <<"FDS.smooth", "FDS_dropout", "pred_layer">> ELSE <<>>

\* the layers _forward_deep applies to the tabular features before adding
SmoothOps(s, train) ==
    (IF train /\ s.fds THEN <<"FDS.smooth", "FDS_dropout">> ELSE <<>>)
    \o (IF s.fds THEN <<"pred_layer">> ELSE <<>>)

\* the tabular step of _forward_deep; done: it returned from the function
TabStep(s, train, b, wide_out) ==
    IF ~s.deeptabular.present
    THEN [r |-> Return(wide_out), done |-> FALSE]
    ELSE LET f == CallDeep(s, s.deeptabular, "deeptabular", b)
         IN  IF s.is_tabnet
             THEN (IF ~AddFits(wide_out, f)
                   THEN [r |-> Raise("RuntimeError"), done |-> TRUE]
                   ELSE [r |-> Return(add_(wide_out, f)), done |-> FALSE])
             ELSE LET t == IF s.fds
                           THEN Tensor(f.rows, s.pred_layer.out,
                                  <<Term(<<"deeptabular">>,
                                         SmoothOps(s, train))>>)
                           ELSE f
                  IN  IF ~AddFits(wide_out, t)
                      THEN [r |-> Raise("RuntimeError"), done |-> TRUE]
                      ELSE IF train /\ s.fds
                      THEN [r |-> ReturnPair(add_(wide_out, t),
                                             FeaturesAux(f)),
                            done |-> TRUE]
                      ELSE [r |-> Return(add_(wide_out, t)), done |-> FALSE]

\* wide_out.add_(comp(X[name])) when comp is present
AddBranch(s, comp, name, b, r) ==
    IF r.exc # "none" \/ ~comp.present THEN r
    ELSE LET t == CallDeep(s, comp, name, b)
         IN  IF ~AddFits(r.out, t) THEN Raise("RuntimeError")
             ELSE Return(add_(r.out, t))

_forward_deep(s, train, b, wide_out) ==
    LET tab == TabStep(s, train, b, wide_out)
    IN  IF tab.done THEN tab.r
        ELSE LET r1 == AddBranch(s, s.deeptext, "deeptext", b, tab.r)
                 r2 == AddBranch(s, s.deepimage, "deepimage", b, r1)
             IN  IF r2.exc # "none" THEN r2
                 ELSE IF s.is_tabnet THEN ReturnPair(r2.out, M_lossAux)
                 ELSE r2

\* self.enf_pos(y) for a tensor y
enf_pos(s, y) == [y EXCEPT !.act = s.enf_pos]

\* what forward gives its caller
NoResult == [kind |-> "none", pred |-> EmptyTensor, aux |-> NoAux,
             exc |-> "none"]

Raised(e) == [NoResult EXCEPT !.kind = "raise", !.exc = e]

Single(y) == [NoResult EXCEPT !.kind = "single", !.pred = y]

Pair(y, aux) == [NoResult EXCEPT !.kind = "pair", !.pred = y, !.aux = aux]

\* the last if of forward: y_pred is whatever the helper returned
FinalReturn(s, r) ==
    IF s.enforce_positive
    THEN (IF r.tuple THEN Raised("TypeError") ELSE Single(enf_pos(s, r.out)))
    ELSE (IF r.tuple THEN Pair(r.out, r.aux) ELSE Single(r.out))

\* FDSTrainReturn that drops the features
FDSTrainReturn_Single(s, r) ==
    IF ~r.tuple THEN Raised("ValueError")
    ELSE IF s.enforce_positive THEN Single(enf_pos(s, r.out))
    ELSE Single(r.out)

\* the elif branch of forward that unpacks the pair of _forward_deep
FDSTrainReturn(s, r) ==
    IF ~r.tuple THEN Raised("ValueError")
    ELSE IF s.enforce_positive THEN Pair(enf_pos(s, r.out), r.aux)
    ELSE Pair(r.out, r.aux)

\* the combination step of forward: the wide contribution, then the head
\* or the direct sum of the deep branches
Combine(s, train, b) ==
    LET w == _forward_wide(s, b)
    IN  IF w.exc # "none" THEN w
        ELSE IF s.deephead.present THEN _forward_deephead(s, b, w.out)
        ELSE _forward_deep(s, train, b, w.out)

forward(s, train, b) ==
    LET r == Combine(s, train, b)
    IN  IF r.exc # "none" THEN Raised(r.exc)
        ELSE IF ~s.deephead.present /\ train /\ s.fds
        THEN FDSTrainReturn(s, r)
        ELSE FinalReturn(s, r)

(* ------------------------------- actions ------------------------------- *)

Init ==
    /\ pc = "new"
    /\ args = NoArgs
    /\ self = NoSelf
    /\ exc = "none"
    /\ warned = 0
    /\ training = TRUE
    /\ X = NoBatch
    /\ fwd_training = TRUE
    /\ res = NoResult

\* model = WideDeep(**a)
Construct ==
    /\ pc = "new"
    /\ \E a \in Args :
        LET r == __init__(a)
        IN  /\ args' = a
            /\ self' = r.self
            /\ exc' = r.exc
            /\ warned' = r.warned
            /\ pc' = IF r.exc = "none" THEN "built" ELSE "failed"
    /\ UNCHANGED <<training, X, fwd_training, res>>

\* model.train()
Train ==
    /\ pc = "built"
    /\ training' = TRUE
    /\ UNCHANGED <<pc, args, self, exc, warned, X, fwd_training, res>>

\* model.eval()
Eval ==
    /\ pc = "built"
    /\ training' = FALSE
    /\ UNCHANGED <<pc, args, self, exc, warned, X, fwd_training, res>>

\* model(X) for a batch whose keys match the configured branches
Forward ==
    /\ pc = "built"
    /\ \E rows \in 1..MaxBatch, wide_zero \in BOOLEAN :
        /\ (wide_zero => self.wide.present)
        /\ X' = Batch(KeysOf(self), rows, wide_zero)
        /\ fwd_training' = training
        /\ res' = forward(self, training, X')
    /\ UNCHANGED <<pc, args, self, exc, warned, training>>

Next == Construct \/ Train \/ Eval \/ Forward

Spec == Init /\ [][Next]_vars

(* ------------------------------- claims -------------------------------- *)

\* construction was attempted
Constructed == pc # "new"

\* forward was called on the model
Called == pc = "built" /\ res.kind # "none"

\* the last forward call returned a result
Returned == pc = "built" /\ res.kind \in {"single", "pair"}

\* C1: every model that construction returns with fds enabled has no custom
\* head, no head built from head_hidden_dims, a tabular branch, and
\* pred_dim = 1; construction with fds enabled and pred_dim = 2 fails.
C1_FdsOnlyWithoutHead ==
    /\ (pc = "built" /\ args.fds) =>
          /\ ~args.deephead.present
          /\ ~args.head_hidden_dims.given
          /\ ~self.deephead.present
          /\ self.deeptabular.present
          /\ self.pred_dim = 1
    /\ (Constructed /\ args.fds /\ args.pred_dim = 2) => pc = "failed"

\* C2: for every accepted configuration and every batch whose keys match it,
\* forward returns a prediction with the batch's row count and pred_dim
\* columns.
C2_PredictionShape ==
    (Called /\ X.keys # {}) =>
        /\ res.kind \in {"single", "pair"}
        /\ res.pred.rows = X.rows
        /\ res.pred.width = self.pred_dim

\* C3: with enforce_positive, whenever the branches were combined forward
\* returns the activated prediction, and returns the auxiliary value of the
\* combination (if any) unchanged.
C3_ActivationOnPredictionOnly ==
    (/\ Called
     /\ self.enforce_positive
     /\ Combine(self, fwd_training, X).exc = "none") =>
        LET r == Combine(self, fwd_training, X)
        IN  /\ res.kind \in {"single", "pair"}
            /\ res.pred = [r.out EXCEPT !.act = args.enforce_positive_activation]
            /\ res.aux = r.aux
            /\ (res.kind = "pair") = r.tuple

\* C4: construction with both deephead and head_hidden_dims supplied fails
\* with an error and yields no model.
C4_HeadAndDimsExclusive ==
    (/\ Constructed
     /\ args.deephead.present
     /\ args.head_hidden_dims.given) =>
        /\ pc = "failed"
        /\ exc # "none"
        /\ self = NoSelf

C4_Witness ==
    /\ pc = "failed"
    /\ exc = "ValueError"
    /\ args.deephead.present
    /\ args.head_hidden_dims.given
    /\ args.deeptabular.present
    /\ args.deephead.inp_feat = args.deeptabular.output_dim

\* the widths of the deep branches passed to the constructor, summed
DeepWidthOfArgs ==
    LET W(c) == IF c.present THEN c.output_dim ELSE 0
    IN  W(args.deeptabular) + W(args.deeptext) + W(args.deepimage)

\* C5: construction with a custom head whose input width differs from the
\* summed output_dim of the present deep branches fails, so a constructed
\* model with a custom head has a head of exactly that input width.
C5_HeadWidthChecked ==
    /\ (/\ Constructed
        /\ args.deephead.present
        /\ args.deephead.inp_feat # DeepWidthOfArgs) =>
            pc = "failed" /\ exc # "none"
    /\ (pc = "built" /\ args.deephead.present) =>
            /\ self.deephead = args.deephead
            /\ self.deephead.inp_feat = DeepWidthOfArgs

C5_Witness ==
    /\ pc = "failed"
    /\ exc = "AssertionError"
    /\ ~args.wide.present
    /\ args.deephead.present
    /\ args.deepimage.present
    /\ args.deephead.inp_feat # DeepWidthOfArgs

\* the model with a wide branch added
C6_WithWide == [self EXCEPT !.wide = [present |-> TRUE, pred_dim |-> self.pred_dim]]

\* the batch with an input that the added wide branch maps to zeros
C6_WithZeroInput == Batch(X.keys \cup {"wide"}, X.rows, TRUE)

\* C6: without a wide branch, forward on a batch starts from a zero
\* [rows, pred_dim] wide contribution: its outcome is the outcome of the
\* model with an added wide branch whose output is all zeros, and a
\* prediction it returns holds deep-side terms only.
C6_ZeroWideIsIdentity ==
    (Called /\ ~self.wide.present /\ X.keys # {}) =>
        /\ _forward_wide(self, X).out = Zeros(X.rows, self.pred_dim)
        /\ res = forward(C6_WithWide, fwd_training, C6_WithZeroInput)
        /\ Returned =>
              /\ res.pred.rows = X.rows
              /\ res.pred.width = self.pred_dim
              /\ \A i \in 1..Len(res.pred.terms) :
                    /\ res.pred.terms[i].srcs # <<>>
                    /\ \A j \in 1..Len(res.pred.terms[i].srcs) :
                          res.pred.terms[i].srcs[j]
                              \in {"deeptabular", "deeptext", "deepimage"}

C6_Witness ==
    /\ Returned
    /\ ~self.wide.present
    /\ self.deeptabular.present
    /\ self.deeptext.present
    /\ self.pred_dim = 2
    /\ Len(res.pred.terms) = 2

\* the arguments call for the TabNet advisory
C7_TabNetWithOthers ==
    /\ args.deeptabular.present
    /\ args.deeptabular.cls = "TabNet"
    /\ (args.wide.present \/ args.deeptext.present \/ args.deepimage.present)

\* the two checks that run before the advisory pass
C7_EarlierChecksPass ==
    /\ (args.wide.present => args.wide.pred_dim = args.pred_dim)
    /\ (args.deeptabular.present => args.deeptabular.has_output_dim)

\* a cause of failure other than the advisory
C7_OtherFailure ==
    \/ args.deeptext.present /\ ~args.deeptext.has_output_dim
    \/ args.deepimage.present /\ ~args.deepimage.has_output_dim
    \/ args.deephead.present /\ args.head_hidden_dims.given
    \/ args.deephead.present /\ args.deephead.inp_feat # DeepWidthOfArgs
    \/ /\ args.fds
       /\ ~args.deephead.present
       /\ ~args.head_hidden_dims.given
       /\ args.pred_dim # 1

\* C7 as stated: a TabNet tabular branch with wide, text or image present
\* gives exactly one warning, anything else gives none.
C7_WarnsWhenTabNetWithOthers ==
    Constructed => warned = (IF C7_TabNetWithOthers THEN 1 ELSE 0)

\* C7 amended: a TabNet tabular branch with wide, text or image present
\* gives exactly one warning provided the wide-width check and the tabular
\* output_dim check, which run first, pass; anything else gives none; and a
\* construction that warned fails only for another cause.
C7_WarnsWhenCheckReached ==
    Constructed =>
        /\ warned = (IF C7_TabNetWithOthers /\ C7_EarlierChecksPass
                     THEN 1 ELSE 0)
        /\ (warned = 1 /\ pc = "failed") => C7_OtherFailure

C7_Witness ==
    /\ pc = "built"
    /\ warned = 1
    /\ args.wide.present
    /\ ~args.deeptext.present
    /\ ~args.deepimage.present

\* C8: after successful construction exactly one setup is active, chosen
\* in the order head_hidden_dims, custom head, fds, per-branch projections.
C8_OneSetupByPriority ==
    pc = "built" =>
        LET built == args.head_hidden_dims.given
            custom == ~built /\ args.deephead.present
            fdsSetup == ~built /\ ~custom /\ args.fds
            wrapped == ~built /\ ~custom /\ ~fdsSetup
            deeps == {self.deeptabular, self.deeptext, self.deepimage}
        IN  /\ built =>
                /\ self.deephead.kind = "built"
                /\ self.deephead.dims = <<DeepWidthOfArgs>> \o args.head_hidden_dims.dims
                /\ self.deephead.head_out =
                      <<args.head_hidden_dims.dims[Len(args.head_hidden_dims.dims)],
                        args.pred_dim>>
            /\ custom => self.deephead = args.deephead
            /\ fdsSetup =>
                /\ self.FDS.present
                /\ self.FDS_dropout
                /\ self.pred_layer.present
                /\ self.pred_layer.inp = args.deeptabular.output_dim
                /\ self.pred_layer.out = args.pred_dim
            /\ wrapped =>
                /\ \A c \in deeps : c.present => c.proj # "none"
                /\ (self.deeptabular.present =>
                      self.deeptabular.proj =
                        IF self.deeptabular.cls = "TabNet"
                        THEN "TabNetPredLayer" ELSE "Linear")
            /\ (\E c \in deeps : c.proj # "none") => wrapped
            /\ self.deephead.present = (built \/ custom)
            /\ (self.FDS.present \/ self.FDS_dropout
                  \/ self.pred_layer.present) => fdsSetup

C8_Witness ==
    /\ pc = "built"
    /\ args.head_hidden_dims.given
    /\ args.fds
    /\ args.deeptabular.present
    /\ args.pred_dim = 1
    /\ self.deephead.kind = "built"

\* C9: whatever switches of mode and forward calls came before, a result
\* of forward is a pair exactly when the tabular branch is TabNet (with the
\* sparsity loss) or the model is in FDS setup and the call ran in training
\* mode (with the raw tabular features), and a single prediction otherwise.
C9_ResultForm ==
    Returned =>
        LET fdsTrain == self.FDS.present /\ fwd_training
        IN  /\ (res.kind = "pair") = (self.is_tabnet \/ fdsTrain)
            /\ res.aux.kind = (IF self.is_tabnet THEN "M_loss"
                               ELSE IF fdsTrain THEN "features"
                               ELSE "none")

C9_Witness ==
    /\ Returned
    /\ res.kind = "pair"
    /\ res.aux.kind = "features"
    /\ self.FDS.present
    /\ fwd_training
    /\ ~training

\* the terms of the wide contribution of the last call
C10_WideTerms ==
    IF self.wide.present /\ ~X.wide_zero THEN <<Term(<<"wide">>, <<>>)>>
    ELSE <<>>

\* the term the branch named name contributes unprojected, if present
C10_RawTerm(c, name) ==
    IF c.present THEN <<Term(<<name>>, <<>>)>> ELSE <<>>

====
